---- MODULE Spec2Model ----
(***************************************************************************)
(* Model of the JSON-Lines logging module (src/logger.py) and of its use   *)
(* by src/test_logger.py.                                                  *)
(*                                                                         *)
(* Python values are records [kind, s]: kind is the Python type name and   *)
(* s is the text of the value (str(value)) as a sequence of tokens, so a   *)
(* line feed inside a text is a token of its own (NL).  A Python dict is   *)
(* a sequence of <<key, value>> pairs with pairwise distinct keys, in      *)
(* insertion order.                                                        *)
(***************************************************************************)
EXTENDS Naturals, Sequences, FiniteSets

VARIABLES
    record,      \* the LogRecord handed to the formatter / filter
    fmt_keys,    \* MyJSONFormatter.fmt_keys
    op,          \* which operation has been applied to `record`
    result,      \* outcome of MyJSONFormatter.format(record)
    accepted,    \* outcome of NonErrorFilter.filter(record)
    pc,          \* per caller: position inside Logger.handle / Handler.handle
    rec,         \* per caller: the LogRecord the caller emitted
    lock,        \* holder of the file handler's lock (0: free)
    file,        \* tokens written so far to the file sink's stream
    setup_pc,    \* position inside setup_logging
    fs,          \* file system and configuration file seen by setup_logging
    config,      \* the parsed configuration (a record) during setup_logging
    activated    \* handlers activated by logging.config.dictConfig

fmtVars == << record, fmt_keys, op, result, accepted >>

concVars == << pc, rec, lock, file >>

setupVars == << setup_pc, fs, config, activated >>

vars == << fmtVars, concVars, setupVars >>

-----------------------------------------------------------------------------
(* Bounds *)

MaxFmtLen == 2
MaxExtras == 1
NumCallers == 2

-----------------------------------------------------------------------------
(* Python values *)

NL == "\n"

Str(toks)  == [kind |-> "str", s |-> toks]
None       == [kind |-> "NoneType", s |-> <<"None">>]
Int(txt)   == [kind |-> "int", s |-> <<txt>>]
Float(txt) == [kind |-> "float", s |-> <<txt>>]
Tuple(toks) == [kind |-> "tuple", s |-> toks]

(* Python dicts *)

Keys(d) == {d[i][1] : i \in DOMAIN d}

Has(d, k) == k \in Keys(d)

Get(d, k) == d[CHOOSE i \in DOMAIN d : d[i][1] = k][2]

Put(d, k, v) ==
    IF Has(d, k)
    THEN [i \in DOMAIN d |-> IF d[i][1] = k THEN <<k, v>> ELSE d[i]]
    ELSE Append(d, <<k, v>>)

Del(d, k) == SelectSeq(d, LAMBDA e : e[1] # k)

RECURSIVE Update(_, _)
Update(d, e) ==
    IF e = <<>> THEN d
    ELSE Update(Put(d, Head(e)[1], Head(e)[2]), Tail(e))

-----------------------------------------------------------------------------
(* Severity levels of the logging library *)

DEBUG    == 10
INFO     == 20
WARNING  == 30
ERROR    == 40
CRITICAL == 50

Levels == {DEBUG, INFO, WARNING, ERROR, CRITICAL}

getLevelName(levelno) ==
    CASE levelno = DEBUG    -> "DEBUG"
      [] levelno = INFO     -> "INFO"
      [] levelno = WARNING  -> "WARNING"
      [] levelno = ERROR    -> "ERROR"
      [] levelno = CRITICAL -> "CRITICAL"

LevelText(levelno) ==
    CASE levelno = DEBUG    -> "10"
      [] levelno = INFO     -> "20"
      [] levelno = WARNING  -> "30"
      [] levelno = ERROR    -> "40"
      [] levelno = CRITICAL -> "50"

-----------------------------------------------------------------------------
(* src/logger.py:9-33 *)

LOG_RECORD_BUILTIN_ATTRS ==
    { "args", "asctime", "created", "exc_info", "exc_text", "filename",
      "funcName", "levelname", "levelno", "lineno", "module", "msecs",
      "message", "msg", "name", "pathname", "process", "processName",
      "relativeCreated", "stack_info", "thread", "threadName", "taskName" }

-----------------------------------------------------------------------------
(* Texts *)

Q == "\""

Digit == <<"0", "1", "2", "3", "4", "5", "6", "7", "8", "9">>

TwoDigits(n) == Digit[(n \div 10) + 1] \o Digit[(n % 10) + 1]

RECURSIVE Digits(_)
Digits(n) == IF n < 10 THEN Digit[n + 1] ELSE Digits(n \div 10) \o Digit[(n % 10) + 1]

(* "%s" placeholders of a message template replaced by the arguments, *)
(* in order (the % operator of str, for the templates used here).      *)
RECURSIVE Interpolate(_, _)
Interpolate(msg, args) ==
    IF msg = <<>> THEN <<>>
    ELSE IF Head(msg) = "%s" /\ args # <<>>
         THEN <<Head(args)>> \o Interpolate(Tail(msg), Tail(args))
         ELSE <<Head(msg)>> \o Interpolate(Tail(msg), args)

-----------------------------------------------------------------------------
(* LogRecord, as Logger.makeRecord builds it for a logging call *)

(* sys.exc_info() with no exception being handled: (None, None, None) *)
NoActiveException == Tuple(<<"NoneType", "None">>)

(* sys.exc_info() inside the except block of test_logger.main *)
ActiveException == Tuple(<<"NameError", "name 'test' is not defined">>)

StackText ==
    Str(<<"Stack (most recent call last):", NL, "  File test_logger.py, line 22, in <module>">>)

SecondsPerDay == 86400

Createds == {0, SecondsPerDay + 3723}

ExtraKeys == {"x", "level"}

ExtraValues == {Str(<<"hello">>)}

Calls ==
    { [msg |-> <<"info">>, args |-> <<>>],
      [msg |-> <<"job ", "%s">>, args |-> <<"a">>] }

RECURSIVE DictsUpTo(_, _, _)
DictsUpTo(n, ks, vs) ==
    IF n = 0 THEN {<<>>}
    ELSE LET shorter == DictsUpTo(n - 1, ks, vs)
         IN  shorter \cup
             { Append(d, <<k, v>>) :
                 d \in {e \in shorter : Len(e) = n - 1},
                 k \in ks, v \in vs }

UniqueKeys(d) == \A i, j \in DOMAIN d : d[i][1] = d[j][1] => i = j

Dicts(n, ks, vs) == {d \in DictsUpTo(n, ks, vs) : UniqueKeys(d)}

Records ==
    { [name |-> "my_logger", msg |-> c.msg, args |-> c.args, levelno |-> l,
       created |-> t, exc_info |-> e, stack_info |-> st, extra |-> x] :
        c \in Calls, l \in Levels, t \in Createds,
        e \in {None, NoActiveException, ActiveException},
        st \in {None, StackText},
        x \in Dicts(MaxExtras, ExtraKeys, ExtraValues) }

(* record.__dict__: the attributes LogRecord.__init__ sets, then the *)
(* caller's extra fields                                             *)
RecordDict(r) ==
    << <<"name", Str(<<r.name>>)>>,
       <<"msg", Str(r.msg)>>,
       <<"args", Tuple(r.args)>>,
       <<"levelname", Str(<<getLevelName(r.levelno)>>)>>,
       <<"levelno", Int(LevelText(r.levelno))>>,
       <<"exc_info", r.exc_info>>,
       <<"exc_text", None>>,
       <<"stack_info", r.stack_info>>,
       <<"created", Float(Digits(r.created) \o ".0")>> >> \o r.extra

(* LogRecord.getMessage *)
getMessage(r) == IF r.args # <<>> THEN Interpolate(r.msg, r.args) ELSE r.msg

(* mutant: datetime.utcfromtimestamp(created).isoformat(), a naive *)
(* datetime without the UTC designator                             *)
isoformat_naive(created) ==
    LET day == created \div SecondsPerDay
        sec == created % SecondsPerDay
    IN  << "1970-01-", TwoDigits(day + 1), "T", TwoDigits(sec \div 3600), ":",
           TwoDigits((sec % 3600) \div 60), ":", TwoDigits(sec % 60) >>

(* datetime.fromtimestamp(created, tz=utc).isoformat(), for the first *)
(* month of the epoch                                                  *)
isoformat(created) ==
    LET day == created \div SecondsPerDay
        sec == created % SecondsPerDay
    IN  << "1970-01-", TwoDigits(day + 1), "T", TwoDigits(sec \div 3600), ":",
           TwoDigits((sec % 3600) \div 60), ":", TwoDigits(sec % 60), "+00:00" >>

(* logging.Formatter.formatException(ei): ei must be an exc_info tuple; *)
(* traceback.print_exception prints "NoneType: None" for (None, None,   *)
(* None) and raises when handed a str.                                  *)
formatException(ei) ==
    IF ei.kind # "tuple"
    THEN [ok |-> FALSE, val |-> None]
    ELSE IF ei = NoActiveException
    THEN [ok |-> TRUE, val |-> Str(<<"NoneType: None">>)]
    ELSE [ok |-> TRUE,
          val |-> Str(<<"Traceback (most recent call last):", NL,
                        "  File test_logger.py, line 17, in main", NL,
                        ei.s[1], ": ", ei.s[2]>>)]

-----------------------------------------------------------------------------
(* MyJSONFormatter, src/logger.py:35-111 *)

OutKeys == {"level", "message", "timestamp"}

SrcAttrs == {"levelname", "message", "timestamp", "exc_info", "nosuch"}

(* the format spec of the shipped configuration and of the tests' notes *)
DefaultFmt ==
    << <<"level", "levelname">>, <<"message", "message">>, <<"timestamp", "timestamp">> >>

FmtSpecs == {DefaultFmt} \cup Dicts(MaxFmtLen, OutKeys, SrcAttrs)

Raised(err) == [ok |-> FALSE, err |-> err, dict |-> <<>>, line |-> <<>>]

(* always_fields.pop(val, None): the value popped ... *)
Pop(d, k) == IF Has(d, k) THEN Get(d, k) ELSE None

(* mutant: always_fields.get(val) in place of pop: nothing is consumed *)
Remaining_keep(d, k) == d

(* ... and what is left of always_fields after it *)
Remaining(d, k) == Del(d, k)

(* mutant: getattr(record, val, None) *)
getattr_default(r, val) ==
    IF Has(RecordDict(r), val)
    THEN [ok |-> TRUE, val |-> Get(RecordDict(r), val)]
    ELSE [ok |-> TRUE, val |-> None]

(* getattr(record, val): raises AttributeError for an attribute the *)
(* record does not have                                              *)
getattr(r, val) ==
    IF Has(RecordDict(r), val)
    THEN [ok |-> TRUE, val |-> Get(RecordDict(r), val)]
    ELSE [ok |-> FALSE, val |-> None]

(* mutant: the entry read as (source attribute, output key) *)
EntryKey_swapped(e) == e[2]

(* for key, val in self.fmt_keys.items() *)
EntryKey(e) == e[1]

EntryAttr(e) == e[2]

(* src/logger.py:86-97 *)
AlwaysFields(r) ==
    LET base == << <<"message", Str(getMessage(r))>>,
                   <<"timestamp", Str(isoformat(r.created))>> >>
        exc  == formatException(r.exc_info)
        stk  == formatException(r.stack_info)
        ok   == (r.exc_info # None => exc.ok) /\ (r.stack_info # None => stk.ok)
        a1   == IF r.exc_info # None THEN Put(base, "exc_info", exc.val) ELSE base
        a2   == IF r.stack_info # None THEN Put(a1, "stack_info", stk.val) ELSE a1
    IN  [ok |-> ok, fields |-> a2]

(* src/logger.py:99-104: the dict comprehension over fmt_keys.items(), *)
(* each step popping from always_fields                                 *)
RECURSIVE Comprehension(_, _, _, _)
Comprehension(r, fk, always, message) ==
    IF fk = <<>> THEN [ok |-> TRUE, message |-> message, always |-> always]
    ELSE LET key     == EntryKey(Head(fk))
             val     == EntryAttr(Head(fk))
             msg_val == Pop(always, val)
             rest    == Remaining(always, val)
             attr    == getattr(r, val)
         IN  IF msg_val # None
             THEN Comprehension(r, Tail(fk), rest, Put(message, key, msg_val))
             ELSE IF attr.ok
             THEN Comprehension(r, Tail(fk), rest, Put(message, key, attr.val))
             ELSE [ok |-> FALSE, message |-> message, always |-> rest]

(* mutant: the loop without its test against LOG_RECORD_BUILTIN_ATTRS *)
RECURSIVE Extras_all(_, _)
Extras_all(items, message) ==
    IF items = <<>> THEN message
    ELSE Extras_all(Tail(items), Put(message, Head(items)[1], Head(items)[2]))

(* src/logger.py:107-109 *)
RECURSIVE Extras(_, _)
Extras(items, message) ==
    IF items = <<>> THEN message
    ELSE IF Head(items)[1] \notin LOG_RECORD_BUILTIN_ATTRS
         THEN Extras(Tail(items), Put(message, Head(items)[1], Head(items)[2]))
         ELSE Extras(Tail(items), message)

(* src/logger.py:71-111; the result is [ok, err, dict] *)
prepare_log_dict(r, fk) ==
    LET af == AlwaysFields(r)
    IN  IF ~af.ok THEN Raised("formatException")
        ELSE LET c == Comprehension(r, fk, af.fields, <<>>)
             IN  IF ~c.ok THEN Raised("AttributeError")
                 ELSE [ok |-> TRUE, err |-> "",
                       dict |-> Extras(RecordDict(r), Update(c.message, c.always)),
                       line |-> <<>>]

(* json.dumps: string escaping, one text per value; default=str for the *)
(* values json has no encoding for                                       *)
RECURSIVE Escape(_)
Escape(toks) ==
    IF toks = <<>> THEN <<>>
    ELSE (CASE Head(toks) = NL -> <<"\\n">>
            [] Head(toks) = Q  -> <<"\\\"">>
            [] OTHER           -> <<Head(toks)>>) \o Escape(Tail(toks))

JsonString(toks) == <<Q>> \o Escape(toks) \o <<Q>>

JsonValue(v) ==
    CASE v.kind = "str"      -> JsonString(v.s)
      [] v.kind = "NoneType" -> <<"null">>
      [] v.kind = "int"      -> v.s
      [] v.kind = "float"    -> v.s
      [] OTHER               -> JsonString(v.s)

RECURSIVE JsonItems(_)
JsonItems(d) ==
    IF d = <<>> THEN <<>>
    ELSE JsonString(<<Head(d)[1]>>) \o <<": ">> \o JsonValue(Head(d)[2])
         \o (IF Len(d) > 1 THEN <<", ">> ELSE <<>>) \o JsonItems(Tail(d))

(* mutant: json.dumps(message, default=str, indent=2), one item per line *)
RECURSIVE JsonItemsIndented(_)
JsonItemsIndented(d) ==
    IF d = <<>> THEN <<>>
    ELSE <<NL, "  ">> \o JsonString(<<Head(d)[1]>>) \o <<": ">> \o JsonValue(Head(d)[2])
         \o (IF Len(d) > 1 THEN <<",">> ELSE <<NL>>) \o JsonItemsIndented(Tail(d))

JsonDumps_indented(d) == <<"{">> \o JsonItemsIndented(d) \o <<"}">>

JsonDumps(d) == <<"{">> \o JsonItems(d) \o <<"}">>

(* src/logger.py:66-69 *)
format(r, fk) ==
    LET m == prepare_log_dict(r, fk)
    IN  IF m.ok THEN [m EXCEPT !.line = JsonDumps(m.dict)] ELSE m

(* mutant: < in place of <= *)
filter_strict(r) == r.levelno < INFO

(* NonErrorFilter.filter, src/logger.py:132-134 *)
filter(r) == r.levelno <= INFO

-----------------------------------------------------------------------------
(* Formatter and filter applied to one record *)

Unset == [ok |-> FALSE, err |-> "unset", dict |-> <<>>, line |-> <<>>]

IdleCallers == [t \in 1..NumCallers |-> "idle"]

NoRecord == [name |-> "", msg |-> <<>>, args |-> <<>>, levelno |-> 0,
             created |-> 0, exc_info |-> None, stack_info |-> None, extra |-> <<>>]

NoConfig == [state |-> "missing", hasHandlers |-> FALSE, handlers |-> {}, filename |-> ""]

NoFs == [dir |-> "absent", mkdir |-> "ok", conf |-> NoConfig, dictConfig |-> "ok"]

Init ==
    /\ record \in Records
    /\ fmt_keys \in FmtSpecs
    /\ op = "none"
    /\ result = Unset
    /\ accepted = "unset"
    /\ pc = IdleCallers
    /\ rec = [t \in 1..NumCallers |-> NoRecord]
    /\ lock = 0
    /\ file = <<>>
    /\ setup_pc = "off"
    /\ fs = NoFs
    /\ config = NoConfig
    /\ activated = {}

Format ==
    /\ op = "none"
    /\ op' = "format"
    /\ result' = format(record, fmt_keys)
    /\ UNCHANGED << record, fmt_keys, accepted, concVars, setupVars >>

Filter ==
    /\ op = "none"
    /\ op' = "filter"
    /\ accepted' = IF filter(record) THEN "yes" ELSE "no"
    /\ UNCHANGED << record, fmt_keys, result, concVars, setupVars >>

Next == Format \/ Filter

Spec == Init /\ [][Next]_vars

-----------------------------------------------------------------------------
(* The configured pipeline under concurrent callers.  The logger, the    *)
(* file handler with its lock, its NonErrorFilter and its MyJSONFormatter *)
(* with the default format spec are wired by logging_config.json through *)
(* logging.config.dictConfig (src/logger.py:179).                         *)

Callers == 1..NumCallers

(* the events the concurrent callers emit *)
ConcRecords ==
    { r \in Records :
        /\ r.levelno \in {INFO, WARNING}
        /\ r.created = 0
        /\ r.exc_info = None
        /\ r.extra = <<>> }

Written(t, toks) == [i \in DOMAIN toks |-> <<t, toks[i]>>]

(* a_logger.<level>(msg, *args): the record is made *)
Emit(t) ==
    /\ pc[t] = "idle"
    /\ \E r \in ConcRecords : rec' = [rec EXCEPT ![t] = r]
    /\ pc' = [pc EXCEPT ![t] = "filter"]
    /\ UNCHANGED << lock, file, fmtVars, setupVars >>

(* Handler.handle: the handler's filters decide *)
HandlerFilter(t) ==
    /\ pc[t] = "filter"
    /\ pc' = [pc EXCEPT ![t] = IF filter(rec[t]) THEN "acquire" ELSE "done"]
    /\ UNCHANGED << rec, lock, file, fmtVars, setupVars >>

(* Handler.acquire *)
LockFree(t) == lock = 0

Acquire(t) ==
    /\ pc[t] = "acquire"
    /\ LockFree(t)
    /\ lock' = t
    /\ pc' = [pc EXCEPT ![t] = "format"]
    /\ UNCHANGED << rec, file, fmtVars, setupVars >>

(* StreamHandler.emit: msg = self.format(record); a failure goes to *)
(* Handler.handleError and nothing is written                       *)
EmitFormat(t) ==
    /\ pc[t] = "format"
    /\ pc' = [pc EXCEPT ![t] =
                IF format(rec[t], fmt_keys).ok THEN "write" ELSE "release"]
    /\ UNCHANGED << rec, lock, file, fmtVars, setupVars >>

(* StreamHandler.emit: stream.write(msg + self.terminator); the stream *)
(* takes the text in two pieces                                        *)
WriteMsg(t) ==
    /\ pc[t] = "write"
    /\ file' = file \o Written(t, format(rec[t], fmt_keys).line)
    /\ pc' = [pc EXCEPT ![t] = "terminator"]
    /\ UNCHANGED << rec, lock, fmtVars, setupVars >>

WriteTerminator(t) ==
    /\ pc[t] = "terminator"
    /\ file' = file \o Written(t, <<NL>>)
    /\ pc' = [pc EXCEPT ![t] = "release"]
    /\ UNCHANGED << rec, lock, fmtVars, setupVars >>

(* Handler.release *)
Release(t) ==
    /\ pc[t] = "release"
    /\ lock' = IF lock = t THEN 0 ELSE lock
    /\ pc' = [pc EXCEPT ![t] = "done"]
    /\ UNCHANGED << rec, file, fmtVars, setupVars >>

InitConc ==
    /\ record = NoRecord
    /\ fmt_keys = DefaultFmt
    /\ op = "none"
    /\ result = Unset
    /\ accepted = "unset"
    /\ pc = IdleCallers
    /\ rec = [t \in Callers |-> NoRecord]
    /\ lock = 0
    /\ file = <<>>
    /\ setup_pc = "off"
    /\ fs = NoFs
    /\ config = NoConfig
    /\ activated = {}

NextConc ==
    \E t \in Callers :
        \/ Emit(t)
        \/ HandlerFilter(t)
        \/ Acquire(t)
        \/ EmitFormat(t)
        \/ WriteMsg(t)
        \/ WriteTerminator(t)
        \/ Release(t)

SpecConc == InitConc /\ [][NextConc]_vars

-----------------------------------------------------------------------------
(* setup_logging, src/logger.py:136-179 *)

ProgramDir == "/app"

(* src/logger.py:163 *)
log_dir == ProgramDir \o "/logs"

(* src/logger.py:167 *)
log_file == log_dir \o "/Logs.log.jsonl"

HandlerNames == {"stdout", "file_json"}

(* what logging_configs/logging_config.json may hold *)
ConfigFiles ==
    { [state |-> "missing", hasHandlers |-> FALSE, handlers |-> {}, filename |-> ""],
      [state |-> "malformed", hasHandlers |-> FALSE, handlers |-> {}, filename |-> ""] }
    \cup
    { [state |-> "valid", hasHandlers |-> FALSE, handlers |-> {}, filename |-> f] :
        f \in {"logs/my_app.log.jsonl"} }
    \cup
    { [state |-> "valid", hasHandlers |-> TRUE, handlers |-> hs, filename |-> f] :
        hs \in SUBSET HandlerNames,
        f \in {"logs/my_app.log.jsonl", "/var/log/app.jsonl"} }

InitSetup ==
    /\ record = NoRecord
    /\ fmt_keys = DefaultFmt
    /\ op = "none"
    /\ result = Unset
    /\ accepted = "unset"
    /\ pc = IdleCallers
    /\ rec = [t \in Callers |-> NoRecord]
    /\ lock = 0
    /\ file = <<>>
    /\ setup_pc = "mkdir"
    /\ fs \in [dir : {"absent", "present", "file"}, mkdir : {"ok", "fail"},
               conf : ConfigFiles, dictConfig : {"ok", "fail"}]
    /\ config = NoConfig
    /\ activated = {}

(* src/logger.py:164: log_dir.mkdir(parents=True, exist_ok=True) *)
Mkdir ==
    /\ setup_pc = "mkdir"
    /\ \/ /\ fs.dir = "present"
          /\ setup_pc' = "open"
          /\ fs' = fs
       \/ /\ fs.dir = "absent" /\ fs.mkdir = "ok"
          /\ setup_pc' = "open"
          /\ fs' = [fs EXCEPT !.dir = "present"]
       \/ /\ fs.dir = "absent" /\ fs.mkdir = "fail"
          /\ setup_pc' = "PermissionError"
          /\ fs' = fs
       \/ /\ fs.dir = "file"
          /\ setup_pc' = "FileExistsError"
          /\ fs' = fs
    /\ UNCHANGED << config, activated, fmtVars, concVars >>

(* src/logger.py:171: open(config_file) *)
OpenConfig ==
    /\ setup_pc = "open"
    /\ setup_pc' = IF fs.conf.state = "missing" THEN "FileNotFoundError" ELSE "load"
    /\ UNCHANGED << fs, config, activated, fmtVars, concVars >>

(* src/logger.py:172: json.load(f_in) *)
LoadConfig ==
    /\ setup_pc = "load"
    /\ \/ /\ fs.conf.state = "malformed"
          /\ setup_pc' = "JSONDecodeError"
          /\ config' = config
       \/ /\ fs.conf.state = "valid"
          /\ setup_pc' = "rewrite"
          /\ config' = fs.conf
    /\ UNCHANGED << fs, activated, fmtVars, concVars >>

(* mutant: the parsed configuration handed on as it was read *)
Rewritten_skipped(c) == c

(* src/logger.py:175-176 *)
Rewritten(c) ==
    IF c.hasHandlers /\ "file_json" \in c.handlers
    THEN [c EXCEPT !.filename = log_file]
    ELSE c

RewriteFilename ==
    /\ setup_pc = "rewrite"
    /\ config' = Rewritten(config)
    /\ setup_pc' = "dictConfig"
    /\ UNCHANGED << fs, activated, fmtVars, concVars >>

Sink(c, h) == [name |-> h, dest |-> IF h = "file_json" THEN c.filename ELSE "ext://sys.stdout"]

(* src/logger.py:179: logging.config.dictConfig(config); on an invalid *)
(* configuration it raises ValueError after the handlers built so far  *)
DictConfig ==
    /\ setup_pc = "dictConfig"
    /\ \/ /\ fs.dictConfig = "ok"
          /\ activated' = {Sink(config, h) : h \in config.handlers}
          /\ setup_pc' = "done"
       \/ /\ fs.dictConfig = "fail"
          /\ \E hs \in SUBSET config.handlers :
                /\ hs # config.handlers \/ hs = {}
                /\ activated' = {Sink(config, h) : h \in hs}
          /\ setup_pc' = "ValueError"
    /\ UNCHANGED << fs, config, fmtVars, concVars >>

NextSetup == Mkdir \/ OpenConfig \/ LoadConfig \/ RewriteFilename \/ DictConfig

SpecSetup == InitSetup /\ [][NextSetup]_vars

-----------------------------------------------------------------------------
(* Properties of the formatter and the filter *)

Formatted == op = "format"

Rendered == op = "format" /\ result.ok

(* names of the derived fields computed for record r (message, timestamp, *)
(* and exc_info / stack_info when the record carries them)                *)
DerivedNames(r) ==
    {"message", "timestamp"}
        \cup (IF r.exc_info # None THEN {"exc_info"} ELSE {})
        \cup (IF r.stack_info # None THEN {"stack_info"} ELSE {})

DerivedValue(r, name) ==
    CASE name = "message"    -> Str(getMessage(r))
      [] name = "timestamp"  -> Str(isoformat(r.created))
      [] name = "exc_info"   -> formatException(r.exc_info).val
      [] name = "stack_info" -> r.stack_info

IntrinsicNames == {"name", "msg", "args", "levelname", "levelno", "exc_info",
                   "exc_text", "stack_info", "created"}

Sources(fk) == {fk[i][2] : i \in DOMAIN fk}

Maps(d, k, v) == Has(d, k) /\ Get(d, k) = v

IsUtcIso(v) ==
    /\ v.kind = "str"
    /\ Len(v.s) = 9
    /\ v.s[1] = "1970-01-"
    /\ v.s[3] = "T"
    /\ v.s[9] = "+00:00"

(* toks occurs in line as a contiguous run of tokens *)
Contains(line, toks) ==
    \E i \in 0..Len(line) :
        /\ i + Len(toks) <= Len(line)
        /\ \A j \in 1..Len(toks) : line[i + j] = toks[j]

C2_ExtrasVerbatim ==
    Rendered =>
        /\ \A i \in DOMAIN record.extra :
              /\ Maps(result.dict, record.extra[i][1], record.extra[i][2])
              /\ Contains(result.line,
                    <<Q, record.extra[i][1], Q, ": ", Q>> \o record.extra[i][2].s \o <<Q>>)
        /\ \A k \in Keys(result.dict) :
              k \in LOG_RECORD_BUILTIN_ATTRS =>
                  k \in Keys(fmt_keys) \cup DerivedNames(record)
        /\ Keys(record.extra) \cap LOG_RECORD_BUILTIN_ATTRS = {}

C2_Witness ==
    /\ Rendered
    /\ record.extra = << <<"x", Str(<<"hello">>)>> >>
    /\ Maps(result.dict, "x", Str(<<"hello">>))
    /\ Contains(result.line, <<Q, "x", Q, ": ", Q, "hello", Q>>)
    /\ ~Has(result.dict, "levelno")

(* C3: the filter accepts exactly DEBUG and INFO and rejects WARNING,     *)
(* ERROR and CRITICAL, and applying it changes nothing but its verdict.   *)
C3_FilterAtMostInfo ==
    /\ [](op = "filter" =>
            /\ accepted \in {"yes", "no"}
            /\ (accepted = "yes") <=> (record.levelno \in {DEBUG, INFO})
            /\ (accepted = "no") <=> (record.levelno \in {WARNING, ERROR, CRITICAL}))
    /\ [][op' = "filter" =>
            UNCHANGED << record, fmt_keys, result, concVars, setupVars >>]_vars

C3_Witness ==
    /\ op = "filter"
    /\ record.levelno = WARNING
    /\ accepted = "no"

(* C4: a format spec naming a source attribute that is neither a derived  *)
(* field of the event nor an attribute of the event makes formatting fail *)
(* with an error; no output (no mapping, no line) is produced.            *)
C4_UnknownAttributeFails ==
    (Formatted /\ \E a \in Sources(fmt_keys) :
                      a \notin DerivedNames(record) \cup IntrinsicNames
                                 \cup Keys(record.extra)) =>
        /\ ~result.ok
        /\ result.err \in {"AttributeError", "formatException"}
        /\ (record.stack_info = None => result.err = "AttributeError")
        /\ result.dict = <<>>
        /\ result.line = <<>>

C4_Witness ==
    /\ Formatted
    /\ fmt_keys = << <<"level", "levelname">>, <<"message", "nosuch">> >>
    /\ record.stack_info = None
    /\ result.err = "AttributeError"
    /\ result.line = <<>>

(* C5: for an event without extra fields whose format spec resolves, the  *)
(* keys of the output are exactly the output keys of the format spec and  *)
(* the derived fields the format spec did not consume.                    *)
C5_ExactKeySet ==
    (Rendered /\ record.extra = <<>>) =>
        Keys(result.dict) =
            Keys(fmt_keys) \cup (DerivedNames(record) \ Sources(fmt_keys))

C5_Witness ==
    /\ Rendered
    /\ record.extra = <<>>
    /\ record.exc_info = ActiveException
    /\ fmt_keys = << <<"level", "message">> >>
    /\ Keys(result.dict) = {"level", "timestamp", "exc_info"}

(* C6: an event of the exception-flavoured call made with no exception    *)
(* being handled formats without failing and carries no exc_info field or *)
(* an empty one; one made while an exception is handled carries a         *)
(* non-empty exc_info.                                                    *)
C6_NoActiveException ==
    (Formatted /\ fmt_keys = DefaultFmt /\ record.stack_info = None) =>
        /\ result.ok
        /\ (record.exc_info = NoActiveException =>
              (Has(result.dict, "exc_info") =>
                  Get(result.dict, "exc_info") \in {None, Str(<<>>)}))
        /\ (record.exc_info = ActiveException =>
              /\ Has(result.dict, "exc_info")
              /\ Get(result.dict, "exc_info").kind = "str"
              /\ Get(result.dict, "exc_info").s # <<>>)

(* C8, as stated: every entry (outputKey, sourceAttr) of any format spec  *)
(* whose sources are derived fields or attributes of the event is looked  *)
(* up without failure, and the output maps outputKey to the derived value *)
(* or to the attribute.                                                   *)
EntryValue(r, a) ==
    IF a \in DerivedNames(r) THEN DerivedValue(r, a) ELSE Get(RecordDict(r), a)

SourcesKnown(r, fk) == Sources(fk) \subseteq DerivedNames(r) \cup IntrinsicNames

DerivedOnce(r, fk) ==
    \A i, j \in DOMAIN fk :
        (fk[i][2] = fk[j][2] /\ fk[i][2] \in DerivedNames(r)) => i = j

NoShadowedKey(r, fk) ==
    Keys(fk) \cap (DerivedNames(r) \ Sources(fk)) = {}

C9_StackAndExcIndependent ==
    (Formatted /\ fmt_keys = DefaultFmt) =>
        /\ result.ok
        /\ Has(result.dict, "stack_info") <=> (record.stack_info # None)
        /\ Has(result.dict, "exc_info") <=> (record.exc_info # None)
        /\ (record.stack_info # None =>
              Maps(result.dict, "stack_info", record.stack_info))

-----------------------------------------------------------------------------
(* Properties of the pipeline under concurrent callers *)

(* the complete lines of f (each with its terminator), given the entries *)
(* cur of the line being read                                           *)
RECURSIVE LinesOf(_, _)
LinesOf(f, cur) ==
    IF f = <<>> THEN <<>>
    ELSE IF Head(f)[2] = NL
         THEN <<Append(cur, Head(f))>> \o LinesOf(Tail(f), <<>>)
         ELSE LinesOf(Tail(f), Append(cur, Head(f)))

(* the entries after the last terminator *)
RECURSIVE Unfinished(_, _)
Unfinished(f, cur) ==
    IF f = <<>> THEN cur
    ELSE IF Head(f)[2] = NL THEN Unfinished(Tail(f), <<>>)
         ELSE Unfinished(Tail(f), Append(cur, Head(f)))

Writers(line) == {line[i][1] : i \in DOMAIN line}

Text(line) == [i \in DOMAIN line |-> line[i][2]]

AllDone == \A t \in Callers : pc[t] = "done"

(* the sink takes the event: its filter accepts it and it renders *)
Taken(r) == r.levelno <= INFO /\ r.stack_info = None

-----------------------------------------------------------------------------
(* Properties of setup_logging *)

EarlyFailure == {"PermissionError", "FileExistsError", "FileNotFoundError", "JSONDecodeError"}

(* C10: a sink is activated only once the log directory exists, the      *)
(* configuration has been read and parsed and the file sink's            *)
(* destination has been rewritten to Logs.log.jsonl in the logs          *)
(* directory next to the program; when creating the directory, opening   *)
(* the configuration or parsing it fails, setup ends in that error and   *)
(* no sink is activated.                                                 *)
C10_ActivationLast ==
    /\ activated # {} =>
          /\ fs.dir = "present"
          /\ fs.conf.state = "valid"
          /\ config.state = "valid"
          /\ setup_pc \in {"done", "ValueError"}
    /\ \A s \in activated :
          s.name = "file_json" =>
              /\ s.dest = "/app/logs/Logs.log.jsonl"
              /\ config.filename = s.dest
    /\ setup_pc \in EarlyFailure => activated = {}
    /\ (fs.dir = "file" \/ (fs.dir = "absent" /\ fs.mkdir = "fail")) =>
          setup_pc \in {"mkdir", "PermissionError", "FileExistsError"}
    /\ fs.conf.state = "missing" =>
          setup_pc \in {"mkdir", "open"} \cup EarlyFailure
    /\ fs.conf.state = "malformed" =>
          setup_pc \in {"mkdir", "open", "load"} \cup EarlyFailure
    /\ setup_pc = "done" =>
          activated = {Sink(config, h) : h \in config.handlers}

C10_Witness ==
    /\ setup_pc = "done"
    /\ fs.conf.filename = "/var/log/app.jsonl"
    /\ [name |-> "file_json", dest |-> "/app/logs/Logs.log.jsonl"] \in activated
    /\ [name |-> "stdout", dest |-> "ext://sys.stdout"] \in activated

====
